---- MODULE Spec2Model ----
(***************************************************************************)
(* DESH chaptermode.py: the duration tolerance clusterer                   *)
(* (build_repeating_groups), the episode-start resolution                  *)
(* (pick_group_by_episode_count) and the post-processing of                *)
(* analyze_chapter_lengths, as a state machine (Spec); and autosplit.py:    *)
(* analyze_chapters, find_similar_samples and find_intro_sequences         *)
(* (SpecAudio).                                                            *)
(*                                                                         *)
(* Durations and tolerances are real seconds in the source; here they are  *)
(* integers counted in ticks of 1/Unit second.  Chapter c of the list is   *)
(* the chapter whose 'number' is c (extract_chapters numbers them 1..T).   *)
(***************************************************************************)
EXTENDS Integers, Sequences, FiniteSets, TLC

\* ------------------------------------------------------------------ bounds
Unit == 4            \* ticks per second
MaxChapters == 5     \* longest chapter list drawn by Init
MaxE == 4            \* largest expected episode count drawn by Init
MaxPrompts == 2      \* how many invalid answers the selection prompt is given
MaxAudioChapters == 4 \* longest chapter list given to analyze_chapters
MaxNodes == 3        \* chapters 1..MaxNodes appear in a drawn match list

\* ------------------------------------------------------- program constants
\* 'duration': None of the final chapter
None == -1
\* tolerance=2.0 of analyze_chapter_lengths (and the default of the clusterer)
Tolerance == 2 * Unit

\* sr: int = 22050
SampleRate == 22050
\* segment_duration = 10  # seconds
SegmentSeconds == 10
\* the silence floor 0.005, in thousandths
SilenceFloor == 5
\* min_group_size: the default 3 and the 4 of the final decision
DefaultGroupSize == 3
FinalGroupSize == 4
\* similarity_threshold, in hundredths of a percent: the default 99.9 and 99.95
DefaultSigma == 9990
FinalSigma == 9995

\* ------------------------------------------------------------------ inputs
\* 300.0 s, 300.25 s, 302.0 s and 302.25 s
DurVals == {300 * Unit, 300 * Unit + 1, 302 * Unit, 302 * Unit + 1}
TauVals == {0, 1, Tolerance}

\* Scenario A: chapters 1..10, 1500 s each except chapters 2, 5 and 8 at 300 s
\* (the time from each chapter's start to the next one's; the 10th has none)
ScenarioA ==
    [c \in 1..9 |-> IF c \in {2, 5, 8} THEN 300 * Unit ELSE 1500 * Unit]

\* Answers typed at the selection prompt, one character per element
Inputs ==
    { <<"q">>, <<"Q">>, <<" ", "q", " ">>, <<>>, <<"x">>, <<"0">>, <<"1">>,
      <<"2">>, <<"3">>, <<" ", "1">>, <<"+", "2">>, <<"-", "1">>,
      <<"1", "q">> }

\* fingerprints: <<1,0>> and <<2,0>> point the same way (distance 0),
\* <<3,4>> is at cosine distance 2/5 of both
FpVals == { <<1, 0>>, <<2, 0>>, <<3, 4>> }

\* what a chapter's first 10 seconds are: below the floor, or exactly at the
\* floor with one of the fingerprints
SegmentVals ==
    {[rms |-> SilenceFloor - 1, fp |-> <<1, 0>>]}
        \cup {[rms |-> SilenceFloor, fp |-> f] : f \in FpVals}

\* distance thresholds <<numerator, denominator>>: the default 0.005, 2/5, 1/2
ThetaVals == { <<1, 200>>, <<2, 5>>, <<1, 2>> }

\* similarities of a drawn match list, in hundredths of a percent
SimVals == { 9992, 10000 }

GroupSizes == { 2, DefaultGroupSize, FinalGroupSize }

SigmaVals == { DefaultSigma, FinalSigma }

\* Scenario D: matches 4-7, 4-11, 7-11 and one more between 20 and chapter x
ScenarioD(x) ==
    << [ch1 |-> 4, ch2 |-> 7, similarity |-> 10000],
       [ch1 |-> 4, ch2 |-> 11, similarity |-> 9995],
       [ch1 |-> 7, ch2 |-> 11, similarity |-> 9992],
       [ch1 |-> IF x < 20 THEN x ELSE 20, ch2 |-> IF x < 20 THEN 20 ELSE x,
        similarity |-> 10000] >>

\* two triangles with no match between them
TwoTriangles ==
    << [ch1 |-> 1, ch2 |-> 2, similarity |-> 10000],
       [ch1 |-> 1, ch2 |-> 3, similarity |-> 10000],
       [ch1 |-> 2, ch2 |-> 3, similarity |-> 10000],
       [ch1 |-> 4, ch2 |-> 5, similarity |-> 10000],
       [ch1 |-> 4, ch2 |-> 6, similarity |-> 10000],
       [ch1 |-> 5, ch2 |-> 6, similarity |-> 10000] >>

\* chapter 1 matches 2 and 3, which match 4 and 5 and nothing else;
\* 6, 7 and 8 are a triangle
LooseChapter ==
    << [ch1 |-> 1, ch2 |-> 2, similarity |-> 10000],
       [ch1 |-> 1, ch2 |-> 3, similarity |-> 10000],
       [ch1 |-> 2, ch2 |-> 4, similarity |-> 10000],
       [ch1 |-> 3, ch2 |-> 5, similarity |-> 10000],
       [ch1 |-> 6, ch2 |-> 7, similarity |-> 10000],
       [ch1 |-> 6, ch2 |-> 8, similarity |-> 10000],
       [ch1 |-> 7, ch2 |-> 8, similarity |-> 10000] >>

VARIABLES
    chapters,          \* chapters[c] = duration of chapter c in ticks, or None
    tolerance,         \* the clusterer's tolerance, in ticks
    expected_episodes, \* E
    caller,            \* "analyze": analyze_chapter_lengths runs; "direct": the clusterer alone
    pc,                \* position: "build", "pick", "prompt", "post", "done"
    i,                 \* index of the sweep in sorted_chapters (1-based)
    used,              \* chapter numbers already grouped or consumed as a seed
    groups,            \* the dict, in insertion order: <<[key, chapters]>>
    group_list,        \* the groups listed at the prompt, in listed order
    episode_starts,    \* what pick_group_by_episode_count returned
    reason,            \* [base, dur, notes]: the justification string
    final_starts,      \* what analyze_chapter_lengths returned
    prompts,           \* number of input() calls made
    invalid,           \* number of "Invalid choice." lines printed
    choice,            \* the last answer read, as typed
    formed,            \* history: every current_group the sweep built, in order
    \* ---- autosplit.py
    apc,               \* position: "off", "analyze", "similar", "intro", "done"
    a_mode,            \* "pipeline": main's steps 3-5; "direct": find_intro_sequences alone
    a_chapters,        \* the chapter list: <<[number, start_time]>>, seconds
    audio_len,         \* len(y), in samples
    segment,           \* segment[n]: [rms, fp] of the 10 s after chapter n's start
    theta,             \* similarity_threshold of find_similar_samples: <<num, den>>
    min_group_size,    \* g
    sigma,             \* similarity_threshold of find_intro_sequences
    a_i,               \* index of analyze_chapters' loop (1-based)
    samples,           \* <<[chapter_number, start_time, fingerprint]>>
    matches,           \* <<[ch1, ch2, similarity]>>: the two samples' chapter numbers
    intro_sequences    \* what find_intro_sequences returned

vars == <<chapters, tolerance, expected_episodes, caller, pc, i, used, groups,
          group_list, episode_starts, reason, final_starts, prompts, invalid,
          choice, formed, apc, a_mode, a_chapters, audio_len, segment, theta,
          min_group_size, sigma, a_i, samples, matches, intro_sequences>>

audio_vars == <<apc, a_mode, a_chapters, audio_len, segment, theta,
                min_group_size, sigma, a_i, samples, matches, intro_sequences>>

chapter_vars == <<chapters, tolerance, expected_episodes, caller, pc, i, used,
                  groups, group_list, episode_starts, reason, final_starts,
                  prompts, invalid, choice, formed>>

\* ----------------------------------------------------------------- helpers
Abs(x) == IF x < 0 THEN -x ELSE x

Min2(a, b) == IF a <= b THEN a ELSE b

\* sorted(S) of a set of integers
SortedSeq(S) ==
    [k \in 1..Cardinality(S) |->
        CHOOSE x \in S : Cardinality({y \in S : y < x}) = k - 1]

\* round(d) of a duration of d ticks: nearest second, a tie to the even one
Round(d) ==
    LET q == d \div Unit
        r == d % Unit
    IN  IF 2 * r < Unit THEN q
        ELSE IF 2 * r > Unit THEN q + 1
        ELSE IF q % 2 = 0 THEN q ELSE q + 1

\* len(chapters), and max(c['number'] for c in chapters) if chapters else 0
total_chapters(chs) == Len(chs)

max_ch(chs) == IF Len(chs) = 0 THEN 0
               ELSE CHOOSE m \in 1..Len(chs) : \A c \in 1..Len(chs) : c <= m

\* ------------------------------------------------------ extract_chapters
\* 'start_time' of the chapters whose starts are gaps[1], gaps[2], ... apart,
\* the first at 0
RECURSIVE StartTimes(_)
StartTimes(gaps) ==
    IF gaps = <<>> THEN <<0>>
    ELSE LET before == StartTimes(SubSeq(gaps, 1, Len(gaps) - 1))
         IN  Append(before, before[Len(before)] + gaps[Len(gaps)])

\* faulty variant: the last chapter is given the duration of the one before it
extract_chapters_LastCopied(starts) ==
    [c \in 1..Len(starts) |->
        IF c < Len(starts) THEN starts[c + 1] - starts[c]
        ELSE IF c > 1 THEN starts[c] - starts[c - 1] ELSE None]

\* the duration loop: the next start minus this one, None for the last chapter
extract_chapters(starts) ==
    [c \in 1..Len(starts) |->
        IF c < Len(starts) THEN starts[c + 1] - starts[c] ELSE None]

\* ------------------------------------------------ build_repeating_groups
usable(chs) == {c \in 1..Len(chs) : chs[c] # None}

\* sorted(usable, key=duration): stable, so equal durations keep list order
sorted_chapters(chs) ==
    LET U == usable(chs)
        Before(a, b) == chs[a] < chs[b] \/ (chs[a] = chs[b] /\ a < b)
    IN  [k \in 1..Cardinality(U) |->
            CHOOSE c \in U : Cardinality({d \in U : Before(d, c)}) = k - 1]

\* faulty variant: the durations are rounded to whole seconds before comparing
Within_Rounded(d2, d1, tol) == Abs(Round(d2) - Round(d1)) * Unit <= tol

\* abs(ch2['duration'] - ch1['duration']) <= tolerance
Within(d2, d1, tol) == Abs(d2 - d1) <= tol

\* faulty variant: the inner loop starts at i + 2 and skips the seed's neighbour
Joiners_SkipNext(chs, k, usd, tol) ==
    LET s == sorted_chapters(chs)
    IN  {s[j] : j \in {j \in (k + 2)..Len(s) :
                        s[j] \notin usd /\ Within(chs[s[j]], chs[s[k]], tol)}}

\* the inner loop: the chapters after position k that join the seed's group
Joiners(chs, k, usd, tol) ==
    LET s == sorted_chapters(chs)
    IN  {s[j] : j \in {j \in (k + 1)..Len(s) :
                        s[j] \notin usd /\ Within(chs[s[j]], chs[s[k]], tol)}}

\* groups[group_key] = sorted(current_group): an existing key keeps its place
PutGroup(gs, key, g) ==
    IF \E n \in 1..Len(gs) : gs[n].key = key
    THEN [n \in 1..Len(gs) |->
            IF gs[n].key = key THEN [key |-> key, chapters |-> g] ELSE gs[n]]
    ELSE Append(gs, [key |-> key, chapters |-> g])

Init ==
    /\ \/ /\ \/ chapters = extract_chapters(<<>>)
             \/ \E T \in 1..MaxChapters : \E gaps \in [1..(T - 1) -> DurVals] :
                    chapters = extract_chapters(StartTimes(gaps))
          /\ \/ /\ caller = "direct"
                /\ tolerance \in TauVals
                /\ expected_episodes = 1
             \/ /\ caller = "analyze"
                /\ tolerance = Tolerance
                /\ expected_episodes \in 1..MaxE
       \/ /\ chapters = extract_chapters(StartTimes(ScenarioA))
          /\ caller = "analyze"
          /\ tolerance = Tolerance
          /\ expected_episodes = 3
    /\ pc = "build"
    /\ i = 1
    /\ used = {}
    /\ groups = <<>>
    /\ group_list = <<>>
    /\ episode_starts = <<>>
    /\ reason = [base |-> "", dur |-> None, notes |-> <<>>]
    /\ final_starts = <<>>
    /\ prompts = 0
    /\ invalid = 0
    /\ choice = <<>>
    /\ formed = <<>>
    /\ apc = "off"
    /\ a_mode = "pipeline"
    /\ a_chapters = <<>>
    /\ audio_len = 0
    /\ segment = <<>>
    /\ theta = <<1, 200>>
    /\ min_group_size = FinalGroupSize
    /\ sigma = FinalSigma
    /\ a_i = 1
    /\ samples = <<>>
    /\ matches = <<>>
    /\ intro_sequences = <<>>

\* faulty variant: a chapter already in a group is taken as a seed again
Consumed_Never(ch, usd) == FALSE

\* if ch1['number'] in used: continue
Consumed(ch, usd) == ch \in usd

\* one iteration of the outer loop of build_repeating_groups
Sweep ==
    /\ pc = "build"
    /\ i <= Len(sorted_chapters(chapters))
    /\ LET s == sorted_chapters(chapters)
           ch1 == s[i]
           current_group == {ch1} \cup Joiners(chapters, i, used, tolerance)
       IN  IF Consumed(ch1, used)
           THEN UNCHANGED <<used, groups, formed>>
           ELSE /\ used' = used \cup current_group
                /\ formed' = Append(formed, [key |-> Round(chapters[ch1]),
                                             chapters |-> SortedSeq(current_group)])
                /\ groups' = IF Cardinality(current_group) >= 2
                             THEN PutGroup(groups, Round(chapters[ch1]),
                                           SortedSeq(current_group))
                             ELSE groups
    /\ i' = i + 1
    /\ UNCHANGED audio_vars
    /\ UNCHANGED <<chapters, tolerance, expected_episodes, caller, pc,
                   group_list, episode_starts, reason, final_starts, prompts,
                   invalid, choice>>

\* return dict(groups)  (also the early return {} when nothing is usable)
BuildReturn ==
    /\ pc = "build"
    /\ i > Len(sorted_chapters(chapters))
    /\ pc' = IF caller = "analyze" THEN "pick" ELSE "done"
    /\ UNCHANGED audio_vars
    /\ UNCHANGED <<formed, chapters, tolerance, expected_episodes, caller, i, used,
                   groups, group_list, episode_starts, reason, final_starts,
                   prompts, invalid, choice>>

\* ------------------------------------------- pick_group_by_episode_count
\* 'episodes_outro' and 'episodes_intro' of group_info
episodes_outro(g) == Len(g.chapters)

episodes_intro(g) == Len(g.chapters) + 1

\* faulty variant: ch + 1 < total_chapters
OutroStarts_Strict(chaps, T) ==
    LET next == [n \in 1..Len(chaps) |-> chaps[n] + 1]
        Keep(c) == c < T
    IN  SelectSeq(next, Keep)

\* faulty variant: the chapters themselves, not the ones that follow them
OutroStarts_NoShift(chaps, T) ==
    LET Keep(c) == c + 1 <= T
    IN  SelectSeq(chaps, Keep)

\* [ch + 1 for ch in chapters if ch + 1 <= total_chapters]
OutroStarts(chaps, T) ==
    LET next == [n \in 1..Len(chaps) |-> chaps[n] + 1]
        Keep(c) == c <= T
    IN  SelectSeq(next, Keep)

\* faulty variant: the two interpretations' start lists are swapped
Candidate_Swapped(g, E, T) ==
    LET next == [n \in 1..Len(g.chapters) |-> g.chapters[n] + 1]
        Keep(c) == c <= T
    IN  IF Len(g.chapters) = E
        THEN <<[starts |-> g.chapters,
                base |-> "Outro-style match (N splits = N episodes)",
                dur |-> g.key]>>
        ELSE IF Len(g.chapters) + 1 = E
        THEN <<[starts |-> SelectSeq(next, Keep),
                base |-> "Intro-style match (N splits = N-1 episodes)",
                dur |-> g.key]>>
        ELSE <<>>

\* the if/elif of step 2 for one group: <<>> or one candidate
Candidate(g, E, T) ==
    IF episodes_outro(g) = E
    THEN <<[starts |-> OutroStarts(g.chapters, T),
            base |-> "Outro-style match (N splits = N episodes)",
            dur |-> g.key]>>
    ELSE IF episodes_intro(g) = E
    THEN <<[starts |-> g.chapters,
            base |-> "Intro-style match (N splits = N-1 episodes)",
            dur |-> g.key]>>
    ELSE <<>>

RECURSIVE best_candidates(_, _, _)
best_candidates(gs, E, T) ==
    IF gs = <<>> THEN <<>>
    ELSE Candidate(Head(gs), E, T) \o best_candidates(Tail(gs), E, T)

\* the filter of plausible_groups
Plausible(g, E) ==
    \/ episodes_outro(g) = E
    \/ episodes_intro(g) = E
    \/ Abs(episodes_outro(g) - E) <= 1
    \/ Abs(episodes_intro(g) - E) <= 1

\* the sort key of sorted_plausible (False < True as 0 < 1)
RankKey(g, E) ==
    << IF episodes_outro(g) = E THEN 0 ELSE 1,
       IF episodes_intro(g) = E THEN 0 ELSE 1,
       Min2(Abs(episodes_outro(g) - E), Abs(episodes_intro(g) - E)),
       Abs(episodes_outro(g) - E) - Abs(episodes_intro(g) - E) >>

\* tuple comparison a < b
TupleLess(a, b) ==
    \E k \in 1..Len(a) : a[k] < b[k] /\ \A m \in 1..(k - 1) : a[m] = b[m]

\* group_list: the plausible groups (all of them when none is), sorted stably
sorted_plausible(gs, E) ==
    LET Keep(g) == Plausible(g, E)
        some == SelectSeq(gs, Keep)
        P == IF some = <<>> THEN gs ELSE some
        Before(a, b) ==
            \/ TupleLess(RankKey(P[a], E), RankKey(P[b], E))
            \/ RankKey(P[a], E) = RankKey(P[b], E) /\ a < b
    IN  [k \in 1..Len(P) |->
            P[CHOOSE a \in 1..Len(P) :
                  Cardinality({b \in 1..Len(P) : Before(b, a)}) = k - 1]]

\* faulty variant: the first candidate wins whenever there is one
AutoSelect_First(best) == Len(best) >= 1

\* step 3: if len(best_candidates) == 1
AutoSelect(best) == Len(best) = 1

\* steps 1-3, up to the first prompt
Pick ==
    /\ pc = "pick"
    /\ LET E == expected_episodes
           T == total_chapters(chapters)
           best == best_candidates(groups, E, T)
       IN  IF groups = <<>>
           THEN /\ episode_starts' = <<>>
                /\ reason' = [base |-> "No repeating groups found.",
                              dur |-> None, notes |-> <<>>]
                /\ pc' = "post"
                /\ UNCHANGED group_list
           ELSE IF AutoSelect(best)
           THEN /\ episode_starts' = best[1].starts
                /\ reason' = [base |-> best[1].base, dur |-> best[1].dur,
                              notes |-> <<>>]
                /\ pc' = "post"
                /\ UNCHANGED group_list
           ELSE /\ group_list' = sorted_plausible(groups, E)
                /\ pc' = "prompt"
                /\ UNCHANGED <<episode_starts, reason>>
    /\ UNCHANGED audio_vars
    /\ UNCHANGED <<formed, chapters, tolerance, expected_episodes, caller, i, used,
                   groups, final_starts, prompts, invalid, choice>>

\* ------------------------------------------------- the selection prompt
RECURSIVE LStrip(_)
LStrip(s) == IF s # <<>> /\ Head(s) = " " THEN LStrip(Tail(s)) ELSE s

RECURSIVE RStrip(_)
RStrip(s) ==
    IF s # <<>> /\ s[Len(s)] = " " THEN RStrip(SubSeq(s, 1, Len(s) - 1)) ELSE s

\* str.lower() over the letters the answers use
LowerChar(c) == IF c = "Q" THEN "q" ELSE IF c = "X" THEN "x" ELSE c

\* input(...).strip().lower()
Normalize(raw) ==
    LET t == RStrip(LStrip(raw)) IN [n \in 1..Len(t) |-> LowerChar(t[n])]

DigitVal ==
    ("0" :> 0) @@ ("1" :> 1) @@ ("2" :> 2) @@ ("3" :> 3) @@ ("4" :> 4) @@
    ("5" :> 5) @@ ("6" :> 6) @@ ("7" :> 7) @@ ("8" :> 8) @@ ("9" :> 9)

RECURSIVE DigitsValue(_)
DigitsValue(s) ==
    IF s = <<>> THEN 0
    ELSE 10 * DigitsValue(SubSeq(s, 1, Len(s) - 1)) + DigitVal[s[Len(s)]]

\* int(choice): [ok |-> FALSE] stands for ValueError
ParseInt(s) ==
    LET signed == s # <<>> /\ Head(s) \in {"+", "-"}
        body == IF signed THEN Tail(s) ELSE s
    IN  IF body = <<>> \/ \E n \in 1..Len(body) : body[n] \notin DOMAIN DigitVal
        THEN [ok |-> FALSE, val |-> 0]
        ELSE [ok |-> TRUE,
              val |-> IF signed /\ Head(s) = "-" THEN -DigitsValue(body)
                      ELSE DigitsValue(body)]

\* faulty variant: the answer is used as a 0-based index
IndexOf_NoShift(val) == val

\* idx = int(choice) - 1
IndexOf(val) == val - 1

\* if 0 <= idx < len(group_list)
ValidIndex(idx, n) == 0 <= idx /\ idx < n

\* group_list[idx], 0-based, a negative idx counting from the end
ListItem(lst, idx) == IF idx >= 0 THEN lst[idx + 1] ELSE lst[Len(lst) + idx + 1]

IsQuit(raw) == Normalize(raw) = <<"q">>

\* the answer selects a listed group
Selects(raw, n) ==
    /\ ~IsQuit(raw)
    /\ ParseInt(Normalize(raw)).ok
    /\ ValidIndex(IndexOf(ParseInt(Normalize(raw)).val), n)

\* choice == 'q': return [], "User quit selection."
PromptQuit ==
    /\ pc = "prompt"
    /\ \E raw \in Inputs :
          /\ IsQuit(raw)
          /\ choice' = raw
    /\ prompts' = prompts + 1
    /\ episode_starts' = <<>>
    /\ reason' = [base |-> "User quit selection.", dur |-> None, notes |-> <<>>]
    /\ pc' = "post"
    /\ UNCHANGED audio_vars
    /\ UNCHANGED <<formed, chapters, tolerance, expected_episodes, caller, i, used,
                   groups, group_list, final_starts, invalid>>

\* a valid index: the outro-style starts of the listed group
PromptSelect ==
    /\ pc = "prompt"
    /\ \E raw \in Inputs :
          /\ Selects(raw, Len(group_list))
          /\ choice' = raw
          /\ LET chosen == ListItem(group_list,
                                    IndexOf(ParseInt(Normalize(raw)).val))
             IN  /\ episode_starts' =
                        OutroStarts(chosen.chapters, total_chapters(chapters))
                 /\ reason' = [base |-> "User selected group", dur |-> chosen.key,
                               notes |-> <<>>]
    /\ prompts' = prompts + 1
    /\ pc' = "post"
    /\ UNCHANGED audio_vars
    /\ UNCHANGED <<formed, chapters, tolerance, expected_episodes, caller, i, used,
                   groups, group_list, final_starts, invalid>>

\* ValueError or an index out of range: print "Invalid choice." and ask again
PromptInvalid ==
    /\ pc = "prompt"
    /\ invalid < MaxPrompts
    /\ \E raw \in Inputs :
          /\ ~IsQuit(raw)
          /\ ~Selects(raw, Len(group_list))
          /\ choice' = raw
    /\ prompts' = prompts + 1
    /\ invalid' = invalid + 1
    /\ UNCHANGED audio_vars
    /\ UNCHANGED <<formed, chapters, tolerance, expected_episodes, caller, pc, i, used,
                   groups, group_list, episode_starts, reason, final_starts>>

\* ------------------------------------------------ analyze_chapter_lengths
\* faulty variant: the start equal to the last chapter number is kept
FilteredStarts_KeepLast(starts, m) ==
    SortedSeq({starts[n] : n \in {n \in 1..Len(starts) : starts[n] <= m}})

\* sorted of: list(set(episode_starts)), c <= max_ch, c != max_ch
FilteredStarts(starts, m) ==
    SortedSeq({starts[n] : n \in {n \in 1..Len(starts) :
                                    starts[n] <= m /\ starts[n] # m}})

\* faulty variant: an empty list passes the first test
Infers_NoEmptyCheck(fs, E) == (fs = <<>> \/ fs[1] > 2) /\ Len(fs) = E - 1

\* faulty variant: final_starts[0] >= 2
Infers_FromTwo(fs, E) == fs # <<>> /\ fs[1] >= 2 /\ Len(fs) = E - 1

\* if final_starts and final_starts[0] > 2: if len(final_starts) == E - 1
Infers(fs, E) == fs # <<>> /\ fs[1] > 2 /\ Len(fs) = E - 1

\* faulty variant: final_starts[-expected_episodes:]
Truncate_Tail(fs, E) == SubSeq(fs, Len(fs) - Min2(Len(fs), E) + 1, Len(fs))

\* final_starts[:expected_episodes], for E >= 0
Truncate(fs, E) == SubSeq(fs, 1, Min2(Len(fs), E))

PostProcess ==
    /\ pc = "post"
    /\ LET E == expected_episodes
           filtered == FilteredStarts(episode_starts, max_ch(chapters))
           inferred == IF Infers(filtered, E) THEN <<1>> \o filtered ELSE filtered
           notes1 == IF Infers(filtered, E)
                     THEN <<"Inferred missing first episode start at chapter 1.">>
                     ELSE <<>>
           notes2 == IF Len(inferred) > E
                     THEN <<"(Note: Truncated to match expected episode count.)">>
                     ELSE <<>>
       IN  /\ final_starts' = IF Len(inferred) > E THEN Truncate(inferred, E)
                              ELSE inferred
           /\ reason' = [reason EXCEPT !.notes = @ \o notes1 \o notes2]
    /\ pc' = "done"
    /\ UNCHANGED audio_vars
    /\ UNCHANGED <<formed, chapters, tolerance, expected_episodes, caller, i, used,
                   groups, group_list, episode_starts, prompts, invalid, choice>>

Next ==
    \/ Sweep
    \/ BuildReturn
    \/ Pick
    \/ PromptQuit
    \/ PromptSelect
    \/ PromptInvalid
    \/ PostProcess

Spec == Init /\ [][Next]_vars

\* ------------------------------------------------------------------------
\* autosplit.py
\* ------------------------------------------------------------------------
Dot(u, v) == u[1] * v[1] + u[2] * v[2]

\* the Euclidean norm; the fingerprints drawn have whole norms
Norm(u) == CHOOSE n \in 0..(Abs(u[1]) + Abs(u[2])) : n * n = Dot(u, u)

\* ------------------------------------------------------- analyze_chapters
\* int(chapter['start_time'] * sr)
start_sample(ch) == ch.start_time * SampleRate

\* sr * segment_duration
segment_samples == SampleRate * SegmentSeconds

\* faulty variant: a segment that ends exactly at the end of the audio is skipped
BeyondAudio_OrAtEnd(ch, len) == start_sample(ch) + segment_samples >= len

\* if start_sample + segment_samples > len(y): continue
BeyondAudio(ch, len) == start_sample(ch) + segment_samples > len

\* if np.sqrt(np.mean(segment**2)) < 0.005: continue
TooQuiet(r) == r < SilenceFloor

\* one iteration of the loop of analyze_chapters
AnalyzeChapter ==
    /\ apc = "analyze"
    /\ a_i <= Len(a_chapters)
    /\ LET chapter == a_chapters[a_i]
       IN  samples' =
               IF BeyondAudio(chapter, audio_len) THEN samples
               ELSE IF TooQuiet(segment[a_i].rms) THEN samples
               ELSE Append(samples, [chapter_number |-> chapter.number,
                                     start_time |-> chapter.start_time,
                                     fingerprint |-> segment[a_i].fp])
    /\ a_i' = a_i + 1
    /\ UNCHANGED chapter_vars
    /\ UNCHANGED <<apc, a_mode, a_chapters, audio_len, segment, theta,
                   min_group_size, sigma, matches, intro_sequences>>

\* return samples
AnalyzeReturn ==
    /\ apc = "analyze"
    /\ a_i > Len(a_chapters)
    /\ apc' = "similar"
    /\ UNCHANGED chapter_vars
    /\ UNCHANGED <<a_mode, a_chapters, audio_len, segment, theta,
                   min_group_size, sigma, a_i, samples, matches, intro_sequences>>

\* --------------------------------------------------- find_similar_samples
\* pdist(..., metric='cosine'): 1 - u.v / (|u| |v|), as <<numerator, denominator>>
CosineDistance(u, v) == << Norm(u) * Norm(v) - Dot(u, v), Norm(u) * Norm(v) >>

\* faulty variant: similarity_score <= similarity_threshold
Below_OrEqual(d, th) == d[1] * th[2] <= th[1] * d[2]

\* if similarity_score < similarity_threshold
Below(d, th) == d[1] * th[2] < th[1] * d[2]

\* (1 - similarity_score) * 100, in hundredths of a percent
SimilarityPercent(d) == ((d[2] - d[1]) * 10000) \div d[2]

\* for i in range(n): for j in range(i + 1, n): the pairs in loop order
Pairs(n) ==
    LET P == {p \in (1..n) \X (1..n) : p[1] < p[2]}
        Before(p, q) == p[1] < q[1] \/ (p[1] = q[1] /\ p[2] < q[2])
    IN  [m \in 1..Cardinality(P) |->
            CHOOSE p \in P : Cardinality({q \in P : Before(q, p)}) = m - 1]

find_similar_samples(smp, th) ==
    IF Len(smp) < 2 THEN <<>>
    ELSE LET Dist(p) == CosineDistance(smp[p[1]].fingerprint, smp[p[2]].fingerprint)
             Keep(p) == Below(Dist(p), th)
             hits == SelectSeq(Pairs(Len(smp)), Keep)
         IN  [m \in 1..Len(hits) |->
                 [ch1 |-> smp[hits[m][1]].chapter_number,
                  ch2 |-> smp[hits[m][2]].chapter_number,
                  similarity |-> SimilarityPercent(Dist(hits[m]))]]

FindSimilar ==
    /\ apc = "similar"
    /\ matches' = find_similar_samples(samples, theta)
    /\ apc' = "intro"
    /\ UNCHANGED chapter_vars
    /\ UNCHANGED <<a_mode, a_chapters, audio_len, segment, theta,
                   min_group_size, sigma, a_i, samples, intro_sequences>>

\* --------------------------------------------------- find_intro_sequences
\* faulty variant: every match counts, whatever its similarity
high_quality_matches_All(ms, sg) == ms

\* [m for m in matches if m['similarity'] >= similarity_threshold]
high_quality_matches(ms, sg) ==
    LET Keep(m) == m.similarity >= sg IN SelectSeq(ms, Keep)

\* chapter_match_counts[ch] and sum(chapter_similarities[ch])
chapter_match_counts(hq, ch) ==
    Cardinality({n \in 1..Len(hq) : hq[n].ch1 = ch})
        + Cardinality({n \in 1..Len(hq) : hq[n].ch2 = ch})

RECURSIVE similarity_sum(_, _)
similarity_sum(hq, ch) ==
    IF hq = <<>> THEN 0
    ELSE (IF Head(hq).ch1 = ch THEN Head(hq).similarity ELSE 0)
         + (IF Head(hq).ch2 = ch THEN Head(hq).similarity ELSE 0)
         + similarity_sum(Tail(hq), ch)

\* the keys of chapter_match_counts, in insertion order
RECURSIVE chapters_seen(_)
chapters_seen(hq) ==
    IF hq = <<>> THEN <<>>
    ELSE LET before == chapters_seen(SubSeq(hq, 1, Len(hq) - 1))
             m == hq[Len(hq)]
             Seen(sq, c) == \E n \in 1..Len(sq) : sq[n] = c
             with1 == IF Seen(before, m.ch1) THEN before ELSE Append(before, m.ch1)
         IN  IF Seen(with1, m.ch2) THEN with1 ELSE Append(with1, m.ch2)

\* faulty variant: count >= min_group_size
IsCandidate_Strict(count, g) == count >= g

\* if count >= min_group_size - 1
IsCandidate(count, g) == count >= g - 1

\* candidate_chapters after the sort by (count, avg_similarity), reverse=True:
\* stable, so equal keys keep insertion order
candidate_chapters(hq, g) ==
    LET seen == chapters_seen(hq)
        count == [n \in 1..Len(seen) |-> chapter_match_counts(hq, seen[n])]
        total == [n \in 1..Len(seen) |-> similarity_sum(hq, seen[n])]
        cand == {n \in 1..Len(seen) : IsCandidate(count[n], g)}
        \* avg(a) > avg(b) and avg(a) = avg(b), both counts positive
        AvgGreater(a, b) == total[a] * count[b] > total[b] * count[a]
        AvgEqual(a, b) == total[a] * count[b] = total[b] * count[a]
        Before(a, b) ==
            \/ count[a] > count[b]
            \/ count[a] = count[b] /\ AvgGreater(a, b)
            \/ count[a] = count[b] /\ AvgEqual(a, b) /\ a < b
        rank == [a \in cand |-> Cardinality({b \in cand : Before(b, a)})]
    IN  [m \in 1..Cardinality(cand) |-> seen[CHOOSE a \in cand : rank[a] = m - 1]]

\* matches_with_candidates of one chapter
matches_with_candidates(hq, cand, ch) ==
    LET cs == {cand[n] : n \in 1..Len(cand)}
    IN  Cardinality({n \in 1..Len(hq) :
            \/ hq[n].ch1 = ch /\ hq[n].ch2 \in cs
            \/ hq[n].ch2 = ch /\ hq[n].ch1 \in cs})

\* if matches_with_candidates >= min_group_size - 1
IsConfirmed(mwc, g) == mwc >= g - 1

best_chapters(hq, cand, g) ==
    {cand[n] : n \in {n \in 1..Len(cand) :
        IsConfirmed(matches_with_candidates(hq, cand, cand[n]), g)}}

find_intro_sequences(ms, g, sg) ==
    LET hq == high_quality_matches(ms, sg)
        cand == candidate_chapters(hq, g)
        best == best_chapters(hq, cand, g)
    IN  IF ms = <<>> THEN <<>>
        ELSE IF hq = <<>> THEN <<>>
        ELSE IF cand = <<>> THEN <<>>
        ELSE IF Cardinality(best) >= g THEN << SortedSeq(best) >>
        ELSE <<>>

FindIntro ==
    /\ apc = "intro"
    /\ intro_sequences' = find_intro_sequences(matches, min_group_size, sigma)
    /\ apc' = "done"
    /\ UNCHANGED chapter_vars
    /\ UNCHANGED <<a_mode, a_chapters, audio_len, segment, theta,
                   min_group_size, sigma, a_i, samples, matches>>

\* a drawn match list: for every pair of chapters 1..MaxNodes no match, or a
\* match of one of the similarities, in the order of the pairs
DrawnMatches(level) ==
    LET Keep(p) == level[p] # 0
        hits == SelectSeq(Pairs(MaxNodes), Keep)
    IN  [m \in 1..Len(hits) |->
            [ch1 |-> hits[m][1], ch2 |-> hits[m][2], similarity |-> level[hits[m]]]]

InitAudio ==
    /\ chapters = <<>>
    /\ tolerance = Tolerance
    /\ expected_episodes = 1
    /\ caller = "direct"
    /\ pc = "off"
    /\ i = 1
    /\ used = {}
    /\ groups = <<>>
    /\ group_list = <<>>
    /\ episode_starts = <<>>
    /\ reason = [base |-> "", dur |-> None, notes |-> <<>>]
    /\ final_starts = <<>>
    /\ prompts = 0
    /\ invalid = 0
    /\ choice = <<>>
    /\ formed = <<>>
    /\ a_i = 1
    /\ samples = <<>>
    /\ intro_sequences = <<>>
    /\ \/ /\ a_mode = "pipeline"
          /\ apc = "analyze"
          /\ \E N \in 0..MaxAudioChapters :
                /\ a_chapters = [n \in 1..N |->
                       [number |-> n, start_time |-> (n - 1) * SegmentSeconds]]
                /\ segment \in [1..N -> SegmentVals]
                /\ audio_len \in {N * segment_samples, N * segment_samples - 1}
                /\ audio_len >= 0
          /\ theta \in ThetaVals
          /\ min_group_size = FinalGroupSize
          /\ sigma = FinalSigma
          /\ matches = <<>>
       \/ /\ a_mode = "direct"
          /\ apc = "intro"
          /\ a_chapters = <<>>
          /\ segment = <<>>
          /\ audio_len = 0
          /\ theta = <<1, 200>>
          /\ \/ /\ \E level \in [{p \in (1..MaxNodes) \X (1..MaxNodes) : p[1] < p[2]}
                                  -> {0} \cup SimVals] :
                      matches = DrawnMatches(level)
                /\ min_group_size \in GroupSizes
                /\ sigma \in SigmaVals
             \/ /\ \E x \in {1, 15, 25} : matches = ScenarioD(x)
                /\ min_group_size = DefaultGroupSize
                /\ sigma = DefaultSigma
             \/ /\ matches \in {TwoTriangles, LooseChapter}
                /\ min_group_size = DefaultGroupSize
                /\ sigma \in SigmaVals

NextAudio ==
    \/ AnalyzeChapter
    \/ AnalyzeReturn
    \/ FindSimilar
    \/ FindIntro

SpecAudio == InitAudio /\ [][NextAudio]_vars

\* ------------------------------------------------------------- properties
Returned == pc # "build"

Analyzed == caller = "analyze" /\ pc = "done"

Members(g) == {g.chapters[n] : n \in 1..Len(g.chapters)}

IsScenarioA == chapters = extract_chapters(StartTimes(ScenarioA))

OutroBase == "Outro-style match (N splits = N episodes)"

IntroBase == "Intro-style match (N splits = N-1 episodes)"

UserBase == "User selected group"

\* C1: every returned group has a seed, its member of smallest duration, and
\* every member's duration is within the tolerance of the seed's.
C1_GroupsWithinToleranceOfSeed ==
    Returned =>
        \A n \in 1..Len(groups) :
            \E seed \in Members(groups[n]) :
                \A m \in Members(groups[n]) :
                    /\ chapters[seed] <= chapters[m]
                    /\ Abs(chapters[m] - chapters[seed]) <= tolerance

\* a returned group of unequal durations, and a chapter beyond the tolerance
\* of its seed that was left out of it
C1_Witness ==
    /\ pc = "done"
    /\ tolerance > 0
    /\ \E n \in 1..Len(groups) :
          /\ \E a, b \in Members(groups[n]) : chapters[a] < chapters[b]
          /\ \E c \in usable(chapters) \ Members(groups[n]) :
                \A m \in Members(groups[n]) :
                    Abs(chapters[c] - chapters[m]) > tolerance

\* C2: the final chapter, whose duration is None, is in no returned group,
\* and no member of a returned group has the duration None.
C2_UndefinedDurationNeverGrouped ==
    Returned =>
        /\ Len(chapters) > 0 => chapters[Len(chapters)] = None
        /\ \A n \in 1..Len(groups) : \A m \in Members(groups[n]) :
              chapters[m] # None /\ m # Len(chapters)

\* the chapter before the final one is grouped, the final one is not
C2_Witness ==
    /\ pc = "done"
    /\ Len(chapters) >= 3
    /\ chapters[Len(chapters)] = None
    /\ \E n \in 1..Len(groups) : (Len(chapters) - 1) \in Members(groups[n])

\* C3 as stated: in Scenario A the clusterer returns exactly one group, {2,5,8}.
C3_ScenarioA_OneGroup ==
    (IsScenarioA /\ tolerance = Tolerance /\ Returned) =>
        /\ Len(groups) = 1
        /\ groups[1].chapters = <<2, 5, 8>>

\* C3 amended: in Scenario A the clusterer returns exactly two groups, {2,5,8}
\* under the key 300 and {1,3,4,6,7,9} under the key 1500.
C3_ScenarioA_TwoGroups ==
    (IsScenarioA /\ tolerance = Tolerance /\ Returned) =>
        /\ Len(groups) = 2
        /\ \E n \in 1..2 :
              groups[n] = [key |-> 300, chapters |-> <<2, 5, 8>>]
        /\ \E n \in 1..2 :
              groups[n] = [key |-> 1500, chapters |-> <<1, 3, 4, 6, 7, 9>>]

C3_Witness == IsScenarioA /\ tolerance = Tolerance /\ pc = "pick" /\ Len(groups) = 2

\* C4: in Scenario A with E = 3, analyze_chapter_lengths returns [3,6,9] by an
\* outro-style exact match, without a prompt, and post-processing changes nothing.
C4_ScenarioA_Starts ==
    (IsScenarioA /\ expected_episodes = 3 /\ caller = "analyze") =>
        /\ pc # "prompt"
        /\ prompts = 0
        /\ pc \in {"post", "done"} =>
              /\ episode_starts = <<3, 6, 9>>
              /\ reason.base = OutroBase
              /\ reason.dur = 300
        /\ pc = "done" =>
              /\ final_starts = <<3, 6, 9>>
              /\ reason.notes = <<>>

C4_Witness ==
    IsScenarioA /\ expected_episodes = 3 /\ Analyzed /\ final_starts = <<3, 6, 9>>

\* C5: for every group of size k the clusterer returns, the outro-style start
\* list and the intro-style start list built from it have exactly k entries,
\* and so has the list pick_group_by_episode_count actually returned.
C5_StartListHasGroupSize ==
    (caller = "analyze" /\ Returned) =>
        /\ \A n \in 1..Len(groups) :
              LET g == groups[n]
                  k == Len(g.chapters)
                  T == total_chapters(chapters)
              IN  /\ Len(OutroStarts(g.chapters, T)) = k
                  /\ Len(Candidate(g, k, T)[1].starts) = k
                  /\ Len(Candidate(g, k + 1, T)[1].starts) = k
        /\ (pc \in {"post", "done"} /\ reason.base \in {OutroBase, IntroBase, UserBase}) =>
              \E n \in 1..Len(groups) :
                  /\ groups[n].key = reason.dur
                  /\ Len(episode_starts) = Len(groups[n].chapters)

\* an outro-style list was returned for a group that holds chapter T-1
C5_Witness ==
    /\ pc = "post"
    /\ reason.base = OutroBase
    /\ \E n \in 1..Len(groups) :
          /\ groups[n].key = reason.dur
          /\ (Len(chapters) - 1) \in Members(groups[n])
          /\ Len(episode_starts) = Len(groups[n].chapters)

\* C6 as stated: an outro-style start list, before post-processing, never
\* contains the last chapter index T.
C6_OutroStartsNeverLastChapter ==
    (pc \in {"post", "done"} /\ reason.base \in {OutroBase, UserBase}) =>
        \A n \in 1..Len(episode_starts) :
            episode_starts[n] # total_chapters(chapters)

\* C6 amended: an outro-style start list, before post-processing, never
\* contains an index greater than T; it contains T exactly when the group holds
\* chapter T-1, and T is gone only after the post-processing.
C6_OutroStartsUpToLastChapter ==
    (pc \in {"post", "done"} /\ reason.base \in {OutroBase, UserBase}) =>
        LET T == total_chapters(chapters)
            starts == {episode_starts[n] : n \in 1..Len(episode_starts)}
        IN  /\ \A c \in starts : c <= T
            /\ \E n \in 1..Len(groups) :
                  /\ groups[n].key = reason.dur
                  /\ (T \in starts) <=> ((T - 1) \in Members(groups[n]))
            /\ pc = "done" =>
                  \A n \in 1..Len(final_starts) : final_starts[n] # T

\* the user's group holds chapter T-1 and the list returned for it holds T
C6_Witness ==
    /\ pc = "post"
    /\ reason.base = UserBase
    /\ \E n \in 1..Len(episode_starts) :
          episode_starts[n] = total_chapters(chapters)

\* the groups whose outro-style (k) or intro-style (k+1) count equals E
ExactMatches ==
    {n \in 1..Len(groups) :
        \/ Len(groups[n].chapters) = expected_episodes
        \/ Len(groups[n].chapters) + 1 = expected_episodes}

C8_QuitAnswers == { <<"q">>, <<"Q">>, <<" ", "q", " ">> }

C8_IntegerAnswers ==
    (<<"0">> :> 0) @@ (<<"1">> :> 1) @@ (<<"2">> :> 2) @@ (<<"3">> :> 3) @@
    (<<" ", "1">> :> 1) @@ (<<"+", "2">> :> 2) @@ (<<"-", "1">> :> -1)

C8_IsIndex(raw, n) ==
    raw \in DOMAIN C8_IntegerAnswers /\ C8_IntegerAnswers[raw] \in 1..n

\* C8: at the selection prompt an answer that is neither q nor an integer in
\* 1..n returns nothing, chooses nothing and is followed by another prompt; the
\* function returns only on a valid index, with the outro-style starts of that
\* listed group, or on q, with an empty start list.  (q is read after
\* strip().lower(), so "Q" and " q " are the quit command too.)
C8_InvalidAnswerRePrompts ==
    prompts > 0 =>
        LET n == Len(group_list)
            T == total_chapters(chapters)
        IN  /\ pc = "prompt" =>
                  /\ choice \notin C8_QuitAnswers
                  /\ ~C8_IsIndex(choice, n)
                  /\ episode_starts = <<>>
                  /\ reason.base = ""
                  /\ invalid = prompts
            /\ pc \in {"post", "done"} =>
                  /\ invalid = prompts - 1
                  /\ \/ /\ choice \in C8_QuitAnswers
                        /\ episode_starts = <<>>
                        /\ reason.base = "User quit selection."
                     \/ /\ C8_IsIndex(choice, n)
                        /\ LET g == group_list[C8_IntegerAnswers[choice]]
                           IN  /\ episode_starts =
                                     SortedSeq({c + 1 : c \in Members(g)} \cap 1..T)
                               /\ reason.base = UserBase
                               /\ reason.dur = g.key

\* an out-of-range integer was answered and the prompt is up again
C8_Witness ==
    /\ pc = "prompt"
    /\ invalid = 2
    /\ choice = <<"0">>
    /\ Len(group_list) = 2

\* C9: the final start list never holds the last chapter number nor a larger one.
C9_FinalStartsBelowLastChapter ==
    Analyzed =>
        \A n \in 1..Len(final_starts) : final_starts[n] < max_ch(chapters)

\* the list before post-processing held the last chapter number
C9_Witness ==
    /\ Analyzed
    /\ final_starts # <<>>
    /\ \E n \in 1..Len(episode_starts) : episode_starts[n] = max_ch(chapters)

TruncatedNote == "(Note: Truncated to match expected episode count.)"

InferredNote == "Inferred missing first episode start at chapter 1."

Notes == {reason.notes[n] : n \in 1..Len(reason.notes)}

\* C10: the final start list is strictly ascending and has at most E entries;
\* when truncation fires it holds the E smallest starts.
C10_FinalStartsAscendingAtMostE ==
    Analyzed =>
        LET E == expected_episodes
            final == {final_starts[n] : n \in 1..Len(final_starts)}
            kept == {episode_starts[n] : n \in 1..Len(episode_starts)}
                        \cap 1..(max_ch(chapters) - 1)
            all == IF InferredNote \in Notes THEN kept \cup {1} ELSE kept
        IN  /\ \A n \in 1..(Len(final_starts) - 1) :
                  final_starts[n] < final_starts[n + 1]
            /\ Len(final_starts) <= E
            /\ final \subseteq all
            /\ TruncatedNote \in Notes <=> Cardinality(all) > E
            /\ TruncatedNote \in Notes =>
                  /\ Len(final_starts) = E
                  /\ \A x \in final : \A y \in all \ final : x < y
            /\ TruncatedNote \notin Notes => final = all

\* truncation fired and dropped a start
C10_Witness ==
    /\ Analyzed
    /\ TruncatedNote \in Notes
    /\ Len(final_starts) >= 2

NoGroupsBase == "No repeating groups found."

\* C16: when the clusterer yields no group, analyze_chapter_lengths goes on to
\* its end without a prompt and returns an empty start list with the
\* justification 'No repeating groups found.', which neither the first-episode
\* inference nor the truncation changes.
C16_NoGroupsGivesEmptyResult ==
    (caller = "analyze" /\ Returned /\ groups = <<>>) =>
        /\ pc # "prompt"
        /\ prompts = 0
        /\ pc = "pick" => ENABLED Pick
        /\ pc = "post" => ENABLED PostProcess
        /\ pc \in {"post", "done"} =>
              /\ episode_starts = <<>>
              /\ reason.base = NoGroupsBase
              /\ reason.dur = None
        /\ pc = "done" =>
              /\ final_starts = <<>>
              /\ reason.notes = <<>>

\* three or more chapters, no two of them alike, and E = 1
C16_Witness ==
    /\ Analyzed
    /\ groups = <<>>
    /\ Len(chapters) >= 3
    /\ expected_episodes = 1
    /\ reason.base = NoGroupsBase

\* C17: chapter 1 is prepended exactly when the deduplicated, filtered list is
\* non-empty, its smallest entry is greater than 2 and it has E-1 entries; then
\* the result has E entries and the justification carries the inference note;
\* otherwise nothing is added and the note is absent.
C17_FirstEpisodeInference ==
    Analyzed =>
        LET E == expected_episodes
            kept == {episode_starts[n] : n \in 1..Len(episode_starts)}
                        \cap 1..(max_ch(chapters) - 1)
            fires == /\ kept # {}
                     /\ \A c \in kept : c > 2
                     /\ Cardinality(kept) = E - 1
            final == {final_starts[n] : n \in 1..Len(final_starts)}
        IN  /\ fires =>
                  /\ final_starts = <<1>> \o SortedSeq(kept)
                  /\ Len(final_starts) = E
                  /\ InferredNote \in Notes
            /\ ~fires =>
                  /\ final \subseteq kept
                  /\ InferredNote \notin Notes

\* the inference fired
C17_Witness ==
    /\ Analyzed
    /\ InferredNote \in Notes
    /\ Len(final_starts) >= 2
    /\ final_starts[1] = 1

\* the groups of two or more chapters the sweep built
FormedGroups == {n \in 1..Len(formed) : Len(formed[n].chapters) >= 2}

\* C18: every group of two or more chapters the sweep built is in the returned
\* mapping under the key round(seed duration), and no two such groups have the
\* same key.
C18_NoFormedGroupLost ==
    Returned =>
        /\ \A n \in FormedGroups : \E m \in 1..Len(groups) : groups[m] = formed[n]
        /\ \A n, m \in FormedGroups : n # m => formed[n].key # formed[m].key

\* C19: the groups the sweep builds, lone seeds included, are pairwise
\* disjoint and make up the used set, and every returned group is one of them,
\* so the returned groups are pairwise disjoint.
C19_GroupsPairwiseDisjoint ==
    /\ \A n, m \in 1..Len(formed) :
          n # m => Members(formed[n]) \cap Members(formed[m]) = {}
    /\ used = UNION {Members(formed[n]) : n \in 1..Len(formed)}
    /\ \A n \in 1..Len(groups) : \E m \in 1..Len(formed) : groups[n] = formed[m]
    /\ \A n, m \in 1..Len(groups) :
          n # m => Members(groups[n]) \cap Members(groups[m]) = {}

\* two groups were returned, the second seeded past the members of the first
C19_Witness ==
    /\ pc = "done"
    /\ Len(groups) = 2
    /\ Len(formed) = 2
    /\ Cardinality(used) = 4

\* ------------------------------------------------- properties, autosplit.py
SamplesReturned == a_mode = "pipeline" /\ apc \in {"similar", "intro", "done"}
MatchesReturned == a_mode = "pipeline" /\ apc \in {"intro", "done"}
IntroReturned == apc = "done"
ChaptersOf(sq) == {sq[n] : n \in 1..Len(sq)}

\* the cosine distance of two fingerprints against theta, as fractions
DistanceBelowTheta(u, v) ==
    (Norm(u) * Norm(v) - Dot(u, v)) * theta[2] < theta[1] * (Norm(u) * Norm(v))
DistanceIsTheta(u, v) ==
    (Norm(u) * Norm(v) - Dot(u, v)) * theta[2] = theta[1] * (Norm(u) * Norm(v))

\* the matches that report the samples at positions a and b, in this order
Reports(a, b) ==
    {n \in 1..Len(matches) :
        /\ matches[n].ch1 = samples[a].chapter_number
        /\ matches[n].ch2 = samples[b].chapter_number}

RunsPastAudio(n) ==
    a_chapters[n].start_time * SampleRate + SampleRate * SegmentSeconds > audio_len
BelowSilenceFloor(n) == segment[n].rms < SilenceFloor
Skipped(n) == RunsPastAudio(n) \/ BelowSilenceFloor(n)

IsScenarioD ==
    /\ a_mode = "direct"
    /\ \E x \in {1, 15, 25} : matches = ScenarioD(x)
    /\ min_group_size = DefaultGroupSize
    /\ sigma = DefaultSigma

\* C13: Scenario D: the high-quality matches 4-7, 4-11, 7-11 and one more
\* between chapter 20 and a chapter outside {4, 7, 11}, with min_group_size 3,
\* give exactly the one group [4, 7, 11].
C13_ScenarioD_OneGroup ==
    (IsScenarioD /\ IntroReturned) => intro_sequences = << <<4, 7, 11>> >>

C13_Witness ==
    /\ IsScenarioD
    /\ IntroReturned
    /\ matches = ScenarioD(15)
    /\ intro_sequences = << <<4, 7, 11>> >>

\* the high-quality match graph, read off the match list
HighQuality(n) == matches[n].similarity >= sigma
Touches(n, c) == matches[n].ch1 = c \/ matches[n].ch2 = c
OtherEnd(n, c) == IF matches[n].ch1 = c THEN matches[n].ch2 ELSE matches[n].ch1
MatchedChapters == {matches[n].ch1 : n \in 1..Len(matches)}
                       \cup {matches[n].ch2 : n \in 1..Len(matches)}
Degree(c) == Cardinality({n \in 1..Len(matches) : HighQuality(n) /\ Touches(n, c)})
CandidateChapter(c) == Degree(c) >= min_group_size - 1
CandidateDegree(c) ==
    Cardinality({n \in 1..Len(matches) :
        HighQuality(n) /\ Touches(n, c) /\ CandidateChapter(OtherEnd(n, c))})
Linked(c, d) ==
    \E n \in 1..Len(matches) : HighQuality(n) /\ Touches(n, c) /\ OtherEnd(n, c) = d

\* C14: find_intro_sequences returns no group or exactly one; the group is
\* sorted ascending, has at least g members, and each member has at least g-1
\* matches of similarity >= sigma, at least g-1 of them against candidate
\* chapters; matches below sigma are not counted.
C14_OneSortedGroupOfConfirmedCandidates ==
    IntroReturned =>
        /\ Len(intro_sequences) <= 1
        /\ \A q \in 1..Len(intro_sequences) :
              LET grp == intro_sequences[q]
              IN  /\ Len(grp) >= min_group_size
                  /\ \A m1, m2 \in 1..Len(grp) : m1 < m2 => grp[m1] < grp[m2]
                  /\ \A m \in 1..Len(grp) :
                        /\ CandidateChapter(grp[m])
                        /\ CandidateDegree(grp[m]) >= min_group_size - 1

\* a group was returned from a list that also holds a match below sigma and a
\* matched chapter that was not confirmed
C14_Witness ==
    /\ IntroReturned
    /\ intro_sequences # <<>>
    /\ \E n \in 1..Len(matches) : ~HighQuality(n)
    /\ \E c \in MatchedChapters : c \notin ChaptersOf(intro_sequences[1])

\* two disjoint clusters of equal size, each dense on its own, not joined
DenseCluster(X) ==
    \A c \in X : Cardinality({d \in X \ {c} : Linked(c, d)}) >= min_group_size - 1
DisjointDenseClusters(X, Y) ==
    /\ X # {} /\ X \cap Y = {}
    /\ Cardinality(X) = Cardinality(Y)
    /\ DenseCluster(X) /\ DenseCluster(Y)
    /\ \A c \in X : \A d \in Y : ~Linked(c, d)

\* C15: with two disjoint dense clusters of equal size in the high-quality
\* match graph, the returned group holds chapters of one cluster only, never
\* chapters of both.
C15_OnlyOneClusterReturned ==
    (IntroReturned /\ intro_sequences # <<>>) =>
        \A X, Y \in SUBSET MatchedChapters :
            DisjointDenseClusters(X, Y) =>
                \A q \in 1..Len(intro_sequences) :
                    ~ /\ ChaptersOf(intro_sequences[q]) \cap X # {}
                      /\ ChaptersOf(intro_sequences[q]) \cap Y # {}

\* C20: every chapter of the returned group has a match of similarity >= sigma
\* with another chapter of that same group.
C20_MembersLinkedInsideGroup ==
    IntroReturned =>
        \A q \in 1..Len(intro_sequences) :
            \A c \in ChaptersOf(intro_sequences[q]) :
                \E d \in ChaptersOf(intro_sequences[q]) \ {c} : Linked(c, d)

====
